---- MODULE Spec2Model ----
(***************************************************************************)
(* Model of the simple_duration crate (src/src/lib.rs): the Duration value *)
(* type, its unit constructors, h/m/s decomposition, "hh:mm:ss" parsing    *)
(* and formatting, and its saturating arithmetic.                          *)
(*                                                                         *)
(* A u64 is held as four 16-bit limbs, least significant first, so that    *)
(* the full 64-bit width (and everything that happens at its edge) is      *)
(* kept while every intermediate number stays inside TLC's integers.       *)
(* Text is a sequence of one-character strings.                            *)
(***************************************************************************)
EXTENDS Integers, Sequences, FiniteSets

VARIABLES
    overflow_checks, \* build profile: TRUE = arithmetic overflow panics (debug),
                     \*                FALSE = it wraps (release)
    op,              \* name of the last operation evaluated ("init" at start)
    self,            \* the Duration the operation was applied to, or None
    args,            \* the operation's u64 / Duration arguments, as a tuple
    text,            \* the text given to parse, or produced by format
    ret,             \* what the operation returned (or Panic)
    steps            \* number of operations applied since the initial value

vars == <<overflow_checks, op, self, args, text, ret, steps>>

----------------------------------------------------------------------------
(* Bounds of the model *)

\* each anchor value a of the u64 samples contributes a, a+1, .., a+Spread
Spread == 1
\* longest chain of operations applied to one starting Duration
MaxSteps == 2
\* longest text enumerated exhaustively over Alphabet
MaxLen == 5

----------------------------------------------------------------------------
(* u64 as limbs *)

Limbs == 4
LimbBase == 2 ^ 16
Limb == 0 .. (LimbBase - 1)

RECURSIVE AddLimbs(_, _, _)
\* a + b + c limb by limb; the result has one more limb, the carry out
AddLimbs(a, b, c) ==
    IF a = <<>> THEN <<c>>
    ELSE LET t == Head(a) + Head(b) + c
         IN  <<t % LimbBase>> \o AddLimbs(Tail(a), Tail(b), t \div LimbBase)

RECURSIVE SubLimbs(_, _, _)
\* a - b - w limb by limb; the extra last limb is the borrow out (0 or 1)
SubLimbs(a, b, w) ==
    IF a = <<>> THEN <<w>>
    ELSE LET t == Head(a) - Head(b) - w
         IN  <<(t + LimbBase) % LimbBase>>
             \o SubLimbs(Tail(a), Tail(b), IF t < 0 THEN 1 ELSE 0)

RECURSIVE MulLimbs(_, _, _)
\* a * k + c for a small factor k; the extra last limb is the carry out
MulLimbs(a, k, c) ==
    IF a = <<>> THEN <<c>>
    ELSE LET t == Head(a) * k + c
         IN  <<t % LimbBase>> \o MulLimbs(Tail(a), k, t \div LimbBase)

RECURSIVE DivLimbs(_, _, _, _)
\* long division of limbs 1..i of a (with r carried in from above) by small k
DivLimbs(a, k, i, r) ==
    IF i = 0 THEN [quot |-> <<>>, rem |-> r]
    ELSE LET cur  == r * LimbBase + a[i]
             rest == DivLimbs(a, k, i - 1, cur % k)
         IN  [quot |-> Append(rest.quot, cur \div k), rem |-> rest.rem]

RECURSIVE LessLimbs(_, _, _)
\* a < b, compared from limb i downwards
LessLimbs(a, b, i) ==
    IF i = 0 THEN FALSE
    ELSE IF a[i] # b[i] THEN a[i] < b[i]
    ELSE LessLimbs(a, b, i - 1)

Front(s) == SubSeq(s, 1, Len(s) - 1)
Last(s) == s[Len(s)]

\* the u64 holding a small natural number
U64(n) == <<n % LimbBase, (n \div LimbBase) % LimbBase, 0, 0>>
U64_MAX == [i \in 1 .. Limbs |-> LimbBase - 1]
U64_ZERO == [i \in 1 .. Limbs |-> 0]

u64_lt(a, b) == LessLimbs(a, b, Limbs)
u64_le(a, b) == ~LessLimbs(b, a, Limbs)
u64_div(a, k) == DivLimbs(a, k, Limbs, 0).quot
u64_rem(a, k) == U64(DivLimbs(a, k, Limbs, 0).rem)

\* u64::checked_add / checked_mul: the low 64 bits and whether bits were lost
u64_overflowing_add(a, b) ==
    LET t == AddLimbs(a, b, 0) IN [val |-> Front(t), overflow |-> Last(t) # 0]
u64_overflowing_mul(a, k) ==
    LET t == MulLimbs(a, k, 0) IN [val |-> Front(t), overflow |-> Last(t) # 0]

\* u64::saturating_add
u64_saturating_add(a, b) ==
    LET t == u64_overflowing_add(a, b) IN IF t.overflow THEN U64_MAX ELSE t.val

\* u64::saturating_sub
u64_saturating_sub(a, b) ==
    LET t == SubLimbs(a, b, 0) IN IF Last(t) # 0 THEN U64_ZERO ELSE Front(t)

\* exact (unbounded) values, one limb wider than a u64
Wide(a) == a \o <<0>>
ExactSum(a, b) == AddLimbs(a, b, 0)
IsU64(a) == /\ DOMAIN a = 1 .. Limbs
            /\ \A i \in 1 .. Limbs : a[i] \in Limb

----------------------------------------------------------------------------
(* Values *)

None == [kind |-> "None"]
Panic == [kind |-> "Panic"]
Duration(seconds) == [kind |-> "Duration", seconds |-> seconds]
Ok(v) == [kind |-> "Ok", value |-> v]
Err(e) == [kind |-> "Err", error |-> e]
DurationError == {"InvalidFormat", "InvalidValue"}

from_seconds(seconds) == Duration(seconds)

\* the same sum / difference computed with wrapping_add / wrapping_sub
saturating_add_wrapping(a, other) ==
    Duration(u64_overflowing_add(a.seconds, other.seconds).val)
saturating_sub_wrapping(a, other) ==
    Duration(Front(SubLimbs(a.seconds, other.seconds, 0)))
sub_wrapping(a, other) == saturating_sub_wrapping(a, other)

saturating_add(a, other) == Duration(u64_saturating_add(a.seconds, other.seconds))
saturating_sub(a, other) == Duration(u64_saturating_sub(a.seconds, other.seconds))
\* impl Add / impl Sub: the operators + and -
add(a, other) == saturating_add(a, other)
sub(a, other) == saturating_sub(a, other)

\* the native u64 operators * and +: on overflow they panic in a build with
\* overflow checks and keep the low 64 bits in a build without
u64_mul(a, k) ==
    LET t == u64_overflowing_mul(a, k)
    IN  IF t.overflow /\ overflow_checks THEN Panic ELSE [kind |-> "u64", val |-> t.val]
u64_add(a, b) ==
    LET t == u64_overflowing_add(a, b)
    IN  IF t.overflow /\ overflow_checks THEN Panic ELSE [kind |-> "u64", val |-> t.val]

zero == Duration(U64_ZERO)

from_minutes(minutes) ==
    LET p == u64_mul(minutes, 60)
    IN  IF p.kind = "Panic" THEN Panic ELSE Duration(p.val)

from_hours(hours) ==
    LET p == u64_mul(hours, 3600)
    IN  IF p.kind = "Panic" THEN Panic ELSE Duration(p.val)

\* hours * 3600 + minutes * 60 + seconds, evaluated left to right
from_hms(hours, minutes, seconds) ==
    LET h == u64_mul(hours, 3600)
    IN  IF h.kind = "Panic" THEN Panic
        ELSE LET m == u64_mul(minutes, 60)
             IN  IF m.kind = "Panic" THEN Panic
                 ELSE LET hm == u64_add(h.val, m.val)
                      IN  IF hm.kind = "Panic" THEN Panic
                          ELSE LET hms == u64_add(hm.val, seconds)
                               IN  IF hms.kind = "Panic" THEN Panic
                                   ELSE Duration(hms.val)

as_seconds(d) == d.seconds
as_minutes(d) == u64_div(d.seconds, 60)
as_hours(d) == u64_div(d.seconds, 3600)
seconds_part(d) == u64_rem(d.seconds, 60)
\* the minutes taken without first removing the whole hours
minutes_part_total(d) == u64_div(d.seconds, 60)
minutes_part(d) == u64_div(u64_rem(d.seconds, 3600), 60)
hours_part(d) == u64_div(d.seconds, 3600)
is_zero(d) == d.seconds = U64_ZERO

----------------------------------------------------------------------------
(* Text: splitting, integer literals, parse and format *)

DigitChars == <<"0", "1", "2", "3", "4", "5", "6", "7", "8", "9">>
IsDigit(c) == \E i \in 1 .. Len(DigitChars) : DigitChars[i] = c
DigitValue(c) == (CHOOSE i \in 1 .. Len(DigitChars) : DigitChars[i] = c) - 1

RECURSIVE SplitFrom(_, _, _)
\* str::split(':'): the pieces between the ':' characters, empty pieces kept;
\* i scans s, start is where the current piece began
SplitFrom(s, start, i) ==
    IF i > Len(s) THEN <<SubSeq(s, start, Len(s))>>
    ELSE IF s[i] = ":"
         THEN <<SubSeq(s, start, i - 1)>> \o SplitFrom(s, i + 1, i + 1)
         ELSE SplitFrom(s, start, i + 1)
split(s) == SplitFrom(s, 1, 1)

RECURSIVE ParseDigits(_, _, _)
\* the digit loop of u64's FromStr: result = result * 10 + digit, failing on a
\* non-digit and on either step leaving the u64 range
ParseDigits(s, i, acc) ==
    IF i > Len(s) THEN [ok |-> TRUE, val |-> acc]
    ELSE IF ~IsDigit(s[i]) THEN [ok |-> FALSE]
    ELSE LET m == u64_overflowing_mul(acc, 10)
         IN  IF m.overflow THEN [ok |-> FALSE]
             ELSE LET a == u64_overflowing_add(m.val, U64(DigitValue(s[i])))
                  IN  IF a.overflow THEN [ok |-> FALSE]
                      ELSE ParseDigits(s, i + 1, a.val)

\* the same reading with an empty piece taken as 0
parse_u64_empty_is_zero(s) ==
    IF Len(s) > 1 /\ s[1] = "+" THEN ParseDigits(s, 2, U64_ZERO)
    ELSE ParseDigits(s, 1, U64_ZERO)
\* str::parse::<u64>(): empty text fails; one leading '+' that is followed by
\* something is skipped; '-' is never a sign for an unsigned type
parse_u64(s) ==
    IF s = <<>> THEN [ok |-> FALSE]
    ELSE IF Len(s) > 1 /\ s[1] = "+" THEN ParseDigits(s, 2, U64_ZERO)
    ELSE ParseDigits(s, 1, U64_ZERO)

\* the count test letting extra pieces through
too_few_parts(parts) == Len(parts) < 3
\* parts.len() != 3
wrong_part_count(parts) == Len(parts) # 3

parse(s) ==
    LET parts == split(s)
    IN  IF wrong_part_count(parts) THEN Err("InvalidFormat")
        ELSE LET hours   == parse_u64(parts[1])
                 minutes == parse_u64(parts[2])
                 seconds == parse_u64(parts[3])
             IN  IF ~hours.ok \/ ~minutes.ok \/ ~seconds.ok THEN Err("InvalidValue")
                 ELSE IF ~u64_lt(minutes.val, U64(60)) \/ ~u64_lt(seconds.val, U64(60))
                      THEN Err("InvalidValue")
                 ELSE LET d == from_hms(hours.val, minutes.val, seconds.val)
                      IN  IF d.kind = "Panic" THEN Panic ELSE Ok(d)

RECURSIVE DecimalDigits(_)
\* the decimal digits of a non-zero u64, most significant first
DecimalDigits(a) ==
    IF a = U64_ZERO THEN <<>>
    ELSE LET q == DivLimbs(a, 10, Limbs, 0)
         IN  Append(DecimalDigits(q.quot), DigitChars[q.rem + 1])
\* "{}" of a u64
Decimal(a) == IF a = U64_ZERO THEN <<"0">> ELSE DecimalDigits(a)

RECURSIVE ZeroPad(_, _)
\* "{:0w}": zeros in front up to a minimum width, never cutting
ZeroPad(t, width) == IF Len(t) >= width THEN t ELSE ZeroPad(<<"0">> \o t, width)

\* the fields cut to their last two digits
format_fixed_width(d) ==
    LET two(a) == LET t == ZeroPad(Decimal(a), 2) IN SubSeq(t, Len(t) - 1, Len(t))
    IN  two(hours_part(d)) \o <<":">> \o two(minutes_part(d))
        \o <<":">> \o two(seconds_part(d))
\* format!("{:02}:{:02}:{:02}", hours_part, minutes_part, seconds_part)
format(d) ==
    ZeroPad(Decimal(hours_part(d)), 2) \o <<":">>
    \o ZeroPad(Decimal(minutes_part(d)), 2) \o <<":">>
    \o ZeroPad(Decimal(seconds_part(d)), 2)

\* impl Display: write!(f, "{}", self.format())
fmt(d) == format(d)

----------------------------------------------------------------------------
(* Inputs *)

SmallAnchors == {0, 59, 3599, 359999}
BigBelow(v) == {Front(SubLimbs(v, U64(k), 0)) : k \in 0 .. Spread}
BigAbove(v) == {Front(AddLimbs(v, U64(k), 0)) : k \in 0 .. Spread}
Samples ==
    {U64(a + k) : a \in SmallAnchors, k \in 0 .. Spread}
    \cup BigBelow(U64_MAX)
    \cup BigAbove(u64_div(U64_MAX, 3600))
    \cup BigAbove(u64_div(U64_MAX, 60))
    \cup BigAbove(<<LimbBase - 1, LimbBase - 1, 0, 0>>)

\* operands of the arithmetic chains: small values, values around the limb
\* carry, values whose sum passes 2^64, and values next to u64::MAX
ArithAnchors == {0, 50, 100}
ArithSamples ==
    {U64(a + k) : a \in ArithAnchors, k \in 0 .. Spread}
    \cup BigBelow(U64_MAX)
    \cup BigAbove(<<LimbBase - 1, LimbBase - 1, 0, 0>>)
    \cup BigAbove(<<LimbBase - 1, LimbBase - 1, LimbBase - 1, LimbBase \div 2 - 1>>)

\* texts for parse: every text over Alphabet up to MaxLen characters ...
Alphabet == {"0", "6", ":", "+", "-"}
ShortTexts == UNION {[1 .. n -> Alphabet] : n \in 0 .. MaxLen}
\* ... three pieces drawn from the renderings of Samples and from pieces that
\* are no plain u64 literal ...
TooBig == Front(Decimal(U64_MAX)) \o <<"6">>
OddPieces ==
    { <<>>, <<"+">>, <<"+", "5">>, <<"-", "5">>, <<" ", "5">>, <<"5", " ">>,
      <<"5", "a">>, <<"0", "0", "7">>, <<"0">> \o Decimal(U64_MAX), TooBig }
Pieces == {Decimal(a) : a \in Samples} \cup OddPieces
\* (the minutes and seconds pieces: the renderings of the values around 0, 59
\* and u64::MAX, and the odd pieces)
LowSamples == {U64(k) : k \in 0 .. Spread} \cup {U64(59 + k) : k \in 0 .. Spread}
MinSecPieces == {Decimal(a) : a \in LowSamples \cup {U64_MAX}} \cup OddPieces
ThreePieceTexts ==
    {a \o <<":">> \o b \o <<":">> \o c :
        a \in Pieces, b \in MinSecPieces, c \in MinSecPieces}
\* ... and texts of one, two and four pieces
FewPieces == { <<>>, <<"0", "0">>, <<"6", "0">>, <<"x">>, TooBig }
OtherCountTexts ==
    FewPieces
    \cup {a \o <<":">> \o b : a \in FewPieces, b \in FewPieces}
    \cup {a \o <<":">> \o b \o <<":">> \o c \o <<":">> \o e :
            a \in FewPieces, b \in FewPieces, c \in FewPieces, e \in FewPieces}
Texts == ShortTexts \cup ThreePieceTexts \cup OtherCountTexts

----------------------------------------------------------------------------
(* Construction, inspection, parsing and formatting *)

Init ==
    /\ overflow_checks \in BOOLEAN
    /\ op = "init"
    /\ self = None
    /\ args = <<>>
    /\ text = <<>>
    /\ ret = None
    /\ steps = 0

\* a call of an associated function: it needs no Duration to start from
Call(name, a, t, result) ==
    /\ op' = name
    /\ self' = None
    /\ args' = a
    /\ text' = t
    /\ ret' = result
    /\ steps' = steps + 1
    /\ UNCHANGED overflow_checks

FromSeconds ==
    /\ op = "init"
    /\ \E s \in Samples : Call("from_seconds", <<s>>, <<>>, from_seconds(s))
FromMinutes ==
    /\ op = "init"
    /\ \E m \in Samples : Call("from_minutes", <<m>>, <<>>, from_minutes(m))
FromHours ==
    /\ op = "init"
    /\ \E h \in Samples : Call("from_hours", <<h>>, <<>>, from_hours(h))
FromHms ==
    /\ op = "init"
    /\ \E h \in Samples, m \in Samples, s \in Samples :
           Call("from_hms", <<h, m, s>>, <<>>, from_hms(h, m, s))
Zero ==
    /\ op = "init"
    /\ Call("zero", <<>>, <<>>, zero)
Parse ==
    /\ op = "init"
    /\ \E t \in Texts : Call("parse", <<>>, t, parse(t))

Makers == {"from_seconds", "from_minutes", "from_hours", "from_hms", "zero", "parse"}
\* the Duration a constructor or a successful parse has just produced
Made == IF ret.kind = "Ok" THEN ret.value ELSE ret

\* a method call on the Duration just made
Method(name, result) ==
    /\ op' = name
    /\ self' = Made
    /\ ret' = result
    /\ steps' = steps + 1
    /\ UNCHANGED <<overflow_checks, args, text>>

\* a Duration has just been made and no method called on it yet
HasDuration == op \in Makers /\ Made.kind = "Duration"

Inspect ==
    /\ HasDuration
    /\ Method("inspect",
              [kind |-> "Parts",
               as_seconds |-> as_seconds(Made),
               as_minutes |-> as_minutes(Made),
               as_hours |-> as_hours(Made),
               seconds_part |-> seconds_part(Made),
               minutes_part |-> minutes_part(Made),
               hours_part |-> hours_part(Made),
               is_zero |-> is_zero(Made)])
Format ==
    /\ HasDuration
    /\ Method("format", [kind |-> "String", chars |-> format(Made)])
Display ==
    /\ HasDuration
    /\ Method("to_string", [kind |-> "String", chars |-> fmt(Made)])

\* parse applied to the text format has just produced
ParseFormatted ==
    /\ op = "format"
    /\ op' = "parse_formatted"
    /\ text' = ret.chars
    /\ ret' = parse(ret.chars)
    /\ steps' = steps + 1
    /\ UNCHANGED <<overflow_checks, self, args>>

Next ==
    \/ FromSeconds \/ FromMinutes \/ FromHours \/ FromHms \/ Zero \/ Parse
    \/ Inspect \/ Format \/ Display \/ ParseFormatted
Spec == Init /\ [][Next]_vars

----------------------------------------------------------------------------
(* Properties of construction, inspection, parsing and formatting *)

RECURSIVE Pad(_, _)
\* a limb sequence lengthened with zero limbs to n limbs
Pad(a, n) == IF Len(a) >= n THEN a ELSE Pad(a \o <<0>>, n)

\* hours * 3600 + minutes * 60 + seconds over unbounded integers (7 limbs)
ExactHms(h, m, s) ==
    AddLimbs(AddLimbs(MulLimbs(h, 3600, 0), MulLimbs(m, 60, 0), 0), Pad(s, Limbs + 2), 0)
Low64(a) == SubSeq(a, 1, Limbs)

ColonCount(t) == Cardinality({i \in DOMAIN t : t[i] = ":"})
AllDigits(t) == \A i \in DOMAIN t : IsDigit(t[i])

RECURSIVE StripZeros(_)
StripZeros(t) == IF t # <<>> /\ Head(t) = "0" THEN StripZeros(Tail(t)) ELSE t
RECURSIVE DigitsLe(_, _)
\* for digit texts of one length: a <= b as numbers
DigitsLe(a, b) ==
    IF a = <<>> THEN TRUE
    ELSE IF Head(a) # Head(b) THEN DigitValue(Head(a)) < DigitValue(Head(b))
    ELSE DigitsLe(Tail(a), Tail(b))
MaxDecimal ==
    <<"1", "8", "4", "4", "6", "7", "4", "4", "0", "7",
      "3", "7", "0", "9", "5", "5", "1", "6", "1", "5">>
\* a non-negative base-10 integer literal fitting in 64 bits: digits only, at
\* least one, of value at most 18446744073709551615
IsU64Literal(t) ==
    /\ t # <<>>
    /\ AllDigits(t)
    /\ LET n == StripZeros(t)
       IN  \/ Len(n) < Len(MaxDecimal)
           \/ Len(n) = Len(MaxDecimal) /\ DigitsLe(n, MaxDecimal)

RECURSIVE LiteralValueFrom(_, _, _)
LiteralValueFrom(t, i, acc) ==
    IF i > Len(t) THEN acc
    ELSE LiteralValueFrom(t, i + 1, Front(MulLimbs(acc, 10, DigitValue(t[i]))))
\* the number a digit text denotes, one limb wider than a u64
LiteralValue(t) == LiteralValueFrom(t, 1, Wide(U64_ZERO))
\* the u64 an IsU64Literal text denotes
LiteralU64(t) == Front(LiteralValue(t))

ParseOps == {"parse", "parse_formatted"}
Sixty == U64(60)

\* C4: for a text whose three pieces are valid u64 decimal integers h, m, s,
\* parse returns Err(InvalidValue) if m >= 60 or s >= 60 and otherwise, for
\* every u64 h, returns Ok of the Duration of exactly h*3600 + m*60 + s seconds,
\* without crashing.
C4_ParseOfThreeIntegers ==
    (/\ op \in ParseOps
     /\ ColonCount(text) = 2
     /\ \A i \in 1 .. 3 : IsU64Literal(split(text)[i]))
    => LET h == LiteralU64(split(text)[1])
           m == LiteralU64(split(text)[2])
           s == LiteralU64(split(text)[3])
       IN  IF ~u64_lt(m, Sixty) \/ ~u64_lt(s, Sixty)
           THEN ret = Err("InvalidValue")
           ELSE /\ ret.kind = "Ok"
                /\ Pad(ret.value.seconds, Limbs + 3) = ExactHms(h, m, s)

\* C5 as stated: for a text of exactly three pieces, if any piece is not a
\* non-negative base-10 integer literal fitting in 64 bits (empty, any non-digit
\* character such as a sign or whitespace, or out of range), parse returns
\* Err(InvalidValue).
C5_AnyNonLiteralPieceIsInvalidValue ==
    (/\ op \in ParseOps
     /\ ColonCount(text) = 2
     /\ \E i \in 1 .. 3 : ~IsU64Literal(split(text)[i]))
    => ret = Err("InvalidValue")

\* a u64 literal, or '+' followed by one
IsSignedU64Literal(t) ==
    \/ IsU64Literal(t)
    \/ t # <<>> /\ Head(t) = "+" /\ IsU64Literal(Tail(t))

\* C5 (amended): for a text of exactly three pieces, if any piece is neither a
\* non-negative base-10 integer literal fitting in 64 bits nor such a literal
\* with a single '+' in front (the piece is empty, is "+" alone, contains any
\* other non-digit character such as '-' or whitespace, or is out of range),
\* parse returns Err(InvalidValue).
C5_NonLiteralPieceIsInvalidValue ==
    (/\ op \in ParseOps
     /\ ColonCount(text) = 2
     /\ \E i \in 1 .. 3 : ~IsSignedU64Literal(split(text)[i]))
    => ret = Err("InvalidValue")

\* a three-piece text whose only bad piece is the last one, and that piece is
\* bad by a '-' sign, by whitespace or by being out of range
C5_Witness ==
    /\ op = "parse"
    /\ ColonCount(text) = 2
    /\ IsU64Literal(split(text)[1]) /\ IsU64Literal(split(text)[2])
    /\ split(text)[3] \in {<<"-", "5">>, <<" ", "5">>, TooBig}
    /\ ret = Err("InvalidValue")

\* C6: parse returns Err(InvalidFormat) exactly when the text does not split
\* on ':' into three pieces, whatever the pieces hold.
C6_InvalidFormatIffNotThreePieces ==
    op \in ParseOps => (ret = Err("InvalidFormat") <=> ColonCount(text) # 2)

\* a four-piece text with a non-numeric and an out-of-range piece
C6_Witness ==
    /\ op = "parse"
    /\ ColonCount(text) = 3
    /\ \E i \in 1 .. 4 : split(text)[i] = <<"x">>
    /\ \E i \in 1 .. 4 : split(text)[i] = TooBig
    /\ ret = Err("InvalidFormat")

\* C7: from_seconds(s) holds s; as_seconds returns it; hours_part*3600 +
\* minutes_part*60 + seconds_part is exactly s; minutes_part and seconds_part
\* are below 60; hours_part equals as_hours.
C7_ExactDecomposition ==
    /\ op = "from_seconds" => ret.kind = "Duration" /\ ret.seconds = args[1]
    /\ op = "inspect" =>
        /\ ret.as_seconds = self.seconds
        /\ ExactHms(ret.hours_part, ret.minutes_part, ret.seconds_part)
              = Pad(self.seconds, Limbs + 3)
        /\ u64_lt(ret.minutes_part, Sixty)
        /\ u64_lt(ret.seconds_part, Sixty)
        /\ ret.hours_part = ret.as_hours

\* the decomposition of from_seconds(u64::MAX) - 1 or of u64::MAX itself
C7_Witness ==
    /\ op = "inspect"
    /\ args = <<self.seconds>>
    /\ ~u64_lt(self.seconds, Front(SubLimbs(U64_MAX, U64(1), 0)))
    /\ ret.minutes_part = U64_ZERO
    /\ ret.hours_part = u64_div(U64_MAX, 3600)

\* C8: for any u64 h and any m, s below 60, from_hms(h, m, s) is a Duration
\* whose formatted text parse accepts, giving back the same Duration.
C8_RoundTripForAnyHms ==
    /\ (op = "from_hms" /\ u64_lt(args[2], Sixty) /\ u64_lt(args[3], Sixty))
           => ret.kind = "Duration"
    /\ op = "parse_formatted" => ret = Ok(self)

\* C9: the formatted text has exactly two ':' and three digit-only fields that
\* denote hours_part, minutes_part and seconds_part; minutes and seconds take
\* exactly 2 digits; hours take 2 digits below 100 and their natural width
\* from 100 on; Display gives the same text.
C9_FormatShape ==
    op \in {"format", "to_string"} =>
        LET t == ret.chars
            f == split(t)
        IN  /\ ColonCount(t) = 2
            /\ \A i \in 1 .. 3 : f[i] # <<>> /\ AllDigits(f[i])
            /\ LiteralValue(f[1]) = Wide(hours_part(self))
            /\ LiteralValue(f[2]) = Wide(minutes_part(self))
            /\ LiteralValue(f[3]) = Wide(seconds_part(self))
            /\ Len(f[2]) = 2 /\ Len(f[3]) = 2
            /\ IF u64_lt(hours_part(self), U64(100))
               THEN Len(f[1]) = 2
               ELSE Len(f[1]) >= 3 /\ f[1][1] # "0"

\* Display of a Duration of 100 hours or more, with one-digit minutes
C9_Witness ==
    /\ op = "to_string"
    /\ ~u64_lt(hours_part(self), U64(100))
    /\ u64_lt(minutes_part(self), U64(10))
    /\ Len(ret.chars) > 8

\* C10: from_minutes, from_hours and from_hms never fail and return the
\* Duration of (m*60), (h*3600), (h*3600 + m*60 + s) modulo 2^64.
C10_ConstructorsTotalAndWrap ==
    /\ op = "from_minutes" =>
          /\ ret.kind = "Duration"
          /\ ret.seconds = Low64(MulLimbs(args[1], 60, 0))
    /\ op = "from_hours" =>
          /\ ret.kind = "Duration"
          /\ ret.seconds = Low64(MulLimbs(args[1], 3600, 0))
    /\ op = "from_hms" =>
          /\ ret.kind = "Duration"
          /\ ret.seconds = Low64(ExactHms(args[1], args[2], args[3]))

----------------------------------------------------------------------------
(* Arithmetic: a chain of + and - steps from a starting Duration *)

InitArith ==
    /\ overflow_checks \in BOOLEAN
    /\ op = "init"
    /\ self = None
    /\ args = <<>>
    /\ text = <<>>
    /\ ret \in {from_seconds(s) : s \in ArithSamples}
    /\ steps = 0

Apply(name, other, result) ==
    /\ op' = name
    /\ self' = ret
    /\ args' = <<other>>
    /\ ret' = result
    /\ steps' = steps + 1
    /\ UNCHANGED <<overflow_checks, text>>

\* the chain may take one more step
CanStep == steps < MaxSteps /\ ret.kind = "Duration"

SaturatingAdd ==
    /\ CanStep
    /\ \E b \in ArithSamples :
           Apply("saturating_add", from_seconds(b), saturating_add(ret, from_seconds(b)))
SaturatingSub ==
    /\ CanStep
    /\ \E b \in ArithSamples :
           Apply("saturating_sub", from_seconds(b), saturating_sub(ret, from_seconds(b)))
Add ==
    /\ CanStep
    /\ \E b \in ArithSamples : Apply("add", from_seconds(b), add(ret, from_seconds(b)))
Sub ==
    /\ CanStep
    /\ \E b \in ArithSamples : Apply("sub", from_seconds(b), sub(ret, from_seconds(b)))

NextArith == SaturatingAdd \/ SaturatingSub \/ Add \/ Sub
SpecArith == InitArith /\ [][NextArith]_vars

AddOps == {"saturating_add", "add"}
SubOps == {"saturating_sub", "sub"}

\* C1: saturating_add(a, b) and a + b return min(a.seconds + b.seconds, 2^64-1),
\* the sum taken over unbounded integers: exact when it fits in a u64, clamped
\* to u64::MAX otherwise, never reduced modulo 2^64.
C1_SaturatingAddIsClampedSum ==
    op \in AddOps =>
        LET exact == ExactSum(self.seconds, args[1].seconds)
        IN  /\ ret.kind = "Duration"
            /\ Wide(ret.seconds) =
                   IF LessLimbs(Wide(U64_MAX), exact, Limbs + 1)
                   THEN Wide(U64_MAX) ELSE exact

\* an addition of two values, neither of them u64::MAX, whose exact sum passes
\* 2^64-1, through the method and through the operator
C1_Witness ==
    /\ op = "add"
    /\ self.seconds # U64_MAX /\ args[1].seconds # U64_MAX
    /\ Last(ExactSum(self.seconds, args[1].seconds)) = 1
    /\ ret.seconds = U64_MAX

\* C2: saturating_sub(a, b) and a - b return a.seconds - b.seconds when
\* b.seconds <= a.seconds (the value that added to b gives a exactly) and 0 when
\* b.seconds > a.seconds; never a negative or wrapped value.
C2_SaturatingSubFloorsAtZero ==
    op \in SubOps =>
        /\ ret.kind = "Duration"
        /\ IsU64(ret.seconds)
        /\ IF u64_le(args[1].seconds, self.seconds)
           THEN ExactSum(ret.seconds, args[1].seconds) = Wide(self.seconds)
           ELSE ret.seconds = U64_ZERO

\* a subtraction of a larger, non-zero value from a smaller non-zero one
C2_Witness ==
    /\ op = "sub"
    /\ self.seconds # U64_ZERO
    /\ u64_lt(self.seconds, args[1].seconds)
    /\ ret.seconds = U64_ZERO

\* C3: along any chain of + and - steps every intermediate value has seconds
\* in [0, 2^64-1], a + step never yields less than the value before it and a
\* - step never yields more than the value before it.
C3_StepsAreMonotoneAndInRange ==
    /\ ret.kind = "Duration"
    /\ IsU64(ret.seconds)
    /\ op \in AddOps => u64_le(self.seconds, ret.seconds)
    /\ op \in SubOps => u64_le(ret.seconds, self.seconds)

\* the end of a full chain: a value that reached u64::MAX by an earlier step
\* is taken down to a smaller non-zero value by a - step
C3_Witness ==
    /\ steps = MaxSteps
    /\ op = "sub"
    /\ self.seconds = U64_MAX
    /\ args[1].seconds # U64_ZERO
    /\ ret.seconds # U64_ZERO
    /\ u64_lt(ret.seconds, self.seconds)

----------------------------------------------------------------------------
(* The host-clock bridge: from_system_time_diff *)

Some(v) == [kind |-> "Some", value |-> v]

NANOS_PER_SEC == 10 ^ 9
\* a SystemTime reading: whole seconds since the epoch (negative before it)
\* and the nanoseconds within the second
SystemTime(sec, nsec) == [tv_sec |-> sec, tv_nsec |-> nsec]
\* the ordering of SystemTime
time_le(a, b) ==
    \/ a.tv_sec < b.tv_sec
    \/ a.tv_sec = b.tv_sec /\ a.tv_nsec <= b.tv_nsec

\* end.duration_since(start): the elapsed std Duration (whole seconds and
\* nanoseconds, a second borrowed when end's nanoseconds are the smaller), or
\* an error when start is later than end
duration_since(end, start) ==
    IF time_le(start, end)
    THEN IF end.tv_nsec >= start.tv_nsec
         THEN Ok([secs  |-> U64(end.tv_sec - start.tv_sec),
                  nanos |-> end.tv_nsec - start.tv_nsec])
         ELSE Ok([secs  |-> U64(end.tv_sec - start.tv_sec - 1),
                  nanos |-> end.tv_nsec + NANOS_PER_SEC - start.tv_nsec])
    ELSE Err("SystemTimeError")
\* std Duration::as_secs
as_secs(std_duration) == std_duration.secs

\* the difference taken as zero when the readings are inverted
from_system_time_diff_or_zero(start, end) ==
    LET r == duration_since(end, start)
    IN  IF r.kind = "Ok" THEN Some(from_seconds(as_secs(r.value))) ELSE Some(zero)
\* end.duration_since(start).ok().map(|d| Self::from_seconds(d.as_secs()))
from_system_time_diff(start, end) ==
    LET r == duration_since(end, start)
    IN  IF r.kind = "Ok" THEN Some(from_seconds(as_secs(r.value))) ELSE None

\* clock readings: seconds around the epoch, around 100 s and around a
\* present-day date, each with nanoseconds at both ends of the second
ClockAnchors == {-1, 99, 1700000000}
ClockNanos == {0, 1, NANOS_PER_SEC \div 2, NANOS_PER_SEC - 1}
Readings ==
    {SystemTime(a + k, n) : a \in ClockAnchors, k \in 0 .. Spread, n \in ClockNanos}

InitClock ==
    /\ overflow_checks \in BOOLEAN
    /\ op = "init"
    /\ self = None
    /\ args = <<>>
    /\ text = <<>>
    /\ ret = None
    /\ steps = 0

FromSystemTimeDiff ==
    /\ op = "init"
    /\ \E start \in Readings, end \in Readings :
           /\ op' = "from_system_time_diff"
           /\ args' = <<start, end>>
           /\ ret' = from_system_time_diff(start, end)
           /\ steps' = steps + 1
           /\ UNCHANGED <<overflow_checks, self, text>>

\* if let Some(duration) = ... { duration.format() }
FormatElapsed ==
    /\ op = "from_system_time_diff"
    /\ ret.kind = "Some"
    /\ op' = "format_elapsed"
    /\ self' = ret.value
    /\ ret' = [kind |-> "String", chars |-> format(ret.value)]
    /\ steps' = steps + 1
    /\ UNCHANGED <<overflow_checks, args, text>>

NextClock == FromSystemTimeDiff \/ FormatElapsed
SpecClock == InitClock /\ [][NextClock]_vars

\* the reading s whole seconds after t
PlusSeconds(t, s) == SystemTime(t.tv_sec + s, t.tv_nsec)
time_lt(a, b) == ~time_le(b, a)
\* the number a u64 below 2^32 holds
SmallValue(a) == a[1] + a[2] * LimbBase

\* C11: from_system_time_diff(start, end) returns None exactly when end
\* precedes start, and otherwise Some(from_seconds(n)) where n is end - start
\* truncated down to whole seconds (start + n s <= end < start + (n+1) s);
\* nothing else is ever returned.
C11_SystemTimeDiffTruncatesOrNone ==
    op = "from_system_time_diff" =>
        LET start == args[1]
            end   == args[2]
        IN  IF time_lt(end, start)
            THEN ret = None
            ELSE /\ ret.kind = "Some"
                 /\ ret.value.kind = "Duration"
                 /\ IsU64(ret.value.seconds)
                 /\ ret.value.seconds[3] = 0 /\ ret.value.seconds[4] = 0
                 /\ LET n == SmallValue(ret.value.seconds)
                    IN  /\ time_le(PlusSeconds(start, n), end)
                        /\ time_lt(end, PlusSeconds(start, n + 1))

\* end is later than start but has the smaller nanoseconds, so the elapsed
\* time is a fraction short of the difference of the whole seconds
C11_Witness ==
    /\ op = "from_system_time_diff"
    /\ args[2].tv_sec > args[1].tv_sec + 1
    /\ args[2].tv_nsec < args[1].tv_nsec
    /\ ret = Some(from_seconds(U64(args[2].tv_sec - args[1].tv_sec - 1)))

====
